---- MODULE Spec2Model ----
(***************************************************************************)
(* Model of the pygine sprite framework: the animation player             *)
(* (animation.py, AnimationManager), the sprite entity and its hitbox     *)
(* geometry and collision engine (pygine/sprite.py, AnimatedSprite).      *)
(*                                                                         *)
(* Numbers.  Python floats are modelled as exact rationals on fixed       *)
(* grids, so that every comparison the code makes is an integer           *)
(* comparison here:                                                        *)
(*   - time is counted in ticks of 1/TimeDen second;                      *)
(*   - a position coordinate is counted in 1/PosDen pixel, so that        *)
(*     int(position) really truncates;                                     *)
(*   - world corners are kept multiplied by K (half sizes times the       *)
(*     5-scaled cosine and sine of the rotation table).                   *)
(***************************************************************************)
EXTENDS Integers, Sequences, FiniteSets, TLC

VARIABLES
    animations,             \* AnimationManager.animations: name -> clip
    current_animation,      \* AnimationManager.current_animation (clip or NoClip)
    current_animation_name, \* AnimationManager.current_animation_name ("" is None)
    current_frame_index,    \* AnimationManager.current_frame_index
    frame_timer,            \* AnimationManager.frame_timer, in ticks
    is_playing,             \* AnimationManager.is_playing
    is_paused,              \* AnimationManager.is_paused
    finished,               \* AnimationManager.finished
    mirrored,               \* AnimatedSprite._mirrored
    current_frame,          \* AnimatedSprite.current_frame (atlas index)
    a,                      \* the sprite the operations act on (self)
    b,                      \* a second sprite (other)
    op,                     \* the operation performed last and its arguments
    ret,                    \* what that operation returned
    unitRun,                \* advance(1/R) calls since the clip was started, -1 if broken
    query,                  \* what the last geometry query derived
    third,                  \* a third sprite, member of the groups queried
    game,                   \* Game: running, paused, callbacks, position in the loop
    events,                 \* the pygame event queue
    held,                   \* the keys and mouse buttons held down (pygame's state)
    input,                  \* utils: the input tracker's module globals
    tickLog,                \* what the current tick of the game loop has done so far
    ticks,                  \* pygame.time.get_ticks(): milliseconds since pygame.init()
    scene                   \* the scene manager and its scenes

vars == <<animations, current_animation, current_animation_name,
          current_frame_index, frame_timer, is_playing, is_paused, finished,
          mirrored, current_frame, a, b, op, ret, unitRun, query,
          third, game, events, held, input, tickLog, ticks, scene>>

\* the third sprite and the game loop, which the operations on a sprite leave alone
otherVars == <<third, game, events, held, input, tickLog, ticks, scene>>

animVars == <<animations, current_animation, current_animation_name,
              current_frame_index, frame_timer, is_playing, is_paused, finished>>

playerVars == <<current_animation, current_animation_name,
                current_frame_index, frame_timer, is_playing, is_paused, finished>>

-----------------------------------------------------------------------------
(* Bounds and scales *)

MaxFrames == 3

TotalFrames == 4

TimeDen == 100

Names == {"walk", "jump"}

DtInputs == {5, 10, 35}

Rev(n) == [i \in 1..n |-> n - i]

\* the clips add_animation is called with: <<name, frames, fps>>, each looping or not
ClipInputs ==
    { <<"walk", Rev(MaxFrames), 10>>,
      <<"walk", <<0>>, 20>>,
      <<"jump", <<0, 1, 2>>, 10>>,
      <<"jump", <<0, TotalFrames + 1, 1>>, 20>>,
      <<"walk", <<>>, 10>>,
      <<"jump", <<TotalFrames, -1>>, 10>>,
      <<"walk", Rev(2), 0>> }

-----------------------------------------------------------------------------
(* Animation clip *)

NoClip == [name |-> "", frames |-> <<>>, fps |-> 0, loop |-> FALSE]

Animation(name, frames, fps, loop) ==
    [name |-> name, frames |-> frames, fps |-> fps, loop |-> loop]

AnimationValid_FramesOnly(frames, fps) == frames # <<>>

\* Animation.__post_init__ raises no ValueError
AnimationValid(frames, fps) == frames # <<>> /\ fps > 0

frame_duration(clip) == TimeDen \div clip.fps

NoOp == [kind |-> "init", name |-> "", n |-> 0, flag |-> FALSE, arg |-> <<>>]

\* an operation and its arguments: a name, a number, a flag, a tuple of coordinates
Op(kind, name, n, flag, arg) ==
    [kind |-> kind, name |-> name, n |-> n, flag |-> flag, arg |-> arg]

-----------------------------------------------------------------------------
(* Sprite entity: Python values *)

PosDen == 2

FrameSize == <<64, 64>>

NoSize == <<>>

NoRadius == -1

\* int(v) for a coordinate v counted in 1/PosDen pixel: truncation toward zero
Trunc(v) == IF v >= 0 THEN v \div PosDen ELSE -((-v) \div PosDen)

Abs(v) == IF v >= 0 THEN v ELSE -v

Max2(x, y) == IF x >= y THEN x ELSE y

Min2(x, y) == IF x <= y THEN x ELSE y

\* 5*cos and 5*sin of the rotations of the model; "53" stands for the angle
\* atan(4/3) = 53.13 degrees, whose cosine 3/5 and sine 4/5 are rational
Rotations == {0, 53}

Cos5(rot) == CASE rot = 0 -> 5 [] rot = 53 -> 3

Sin5(rot) == CASE rot = 0 -> 0 [] rot = 53 -> 4

\* pygame.Rect: integer top-left corner and size; the centre is derived
Rect(x, y, w, h) == [x |-> x, y |-> y, w |-> w, h |-> h]

centerx(r) == r.x + (r.w \div 2)

centery(r) == r.y + (r.h \div 2)

SetCenterx(r, c) == [r EXCEPT !.x = c - (r.w \div 2)]

SetCentery(r, c) == [r EXCEPT !.y = c - (r.h \div 2)]

SetCenter(r, cx, cy) == SetCentery(SetCenterx(r, cx), cy)

\* size of the transformed image: scaled, then rotated (bounding box of the
\* rotated surface, truncated)
ImageSize(s) ==
    LET w == FrameSize[1] * s.scale
        h == FrameSize[2] * s.scale
    IN  IF s.rotation = 0 THEN <<w, h>>
        ELSE <<(w * Abs(Cos5(s.rotation)) + h * Abs(Sin5(s.rotation))) \div 5,
               (w * Abs(Sin5(s.rotation)) + h * Abs(Cos5(s.rotation))) \div 5>>

\* AnimatedSprite.__init__ with an integer position (ix, iy) in pixels
NewSprite(ix, iy) ==
    [pos      |-> <<ix * PosDen, iy * PosDen>>,
     vel      |-> <<0, 0>>,
     acc      |-> <<0, 0>>,
     rotation |-> 0,
     scale    |-> 1,
     rect     |-> Rect(ix, iy, FrameSize[1], FrameSize[2]),
     crect    |-> Rect(ix, iy, FrameSize[1], FrameSize[2]),
     off      |-> <<0, 0>>,
     custom   |-> NoSize,
     shape    |-> "rect",
     radius   |-> NoRadius]

-----------------------------------------------------------------------------
(* Animation player: AnimationManager *)

Registered(name) == animations[name] # NoClip

\* AnimationManager.add_animation
MgrAddAnimation(clip) ==
    animations' = [animations EXCEPT ![clip.name] = clip]

StartClip_KeepsIndex(name) ==
    /\ current_animation' = animations[name]
    /\ current_animation_name' = name
    /\ frame_timer' = 0
    /\ is_playing' = TRUE
    /\ is_paused' = FALSE
    /\ finished' = FALSE
    /\ UNCHANGED current_frame_index

\* the branch of play_animation that starts the clip
StartClip(name) ==
    /\ current_animation' = animations[name]
    /\ current_animation_name' = name
    /\ current_frame_index' = 0
    /\ frame_timer' = 0
    /\ is_playing' = TRUE
    /\ is_paused' = FALSE
    /\ finished' = FALSE

AlreadyPlaying_FinishedOnly(name, restart) ==
    /\ current_animation_name = name
    /\ is_playing
    /\ ~restart
    /\ finished

\* the test of play_animation for "this clip is already playing"
AlreadyPlaying(name, restart) ==
    /\ current_animation_name = name
    /\ is_playing
    /\ ~restart
    /\ ~finished

\* AnimationManager.play_animation
MgrPlay(name, restart) ==
    IF ~Registered(name)
    THEN ret' = "False" /\ UNCHANGED playerVars /\ UNCHANGED unitRun
    ELSE IF AlreadyPlaying(name, restart)
    THEN ret' = "True" /\ UNCHANGED playerVars /\ UNCHANGED unitRun
    ELSE ret' = "True" /\ StartClip(name) /\ unitRun' = 0

MgrStop_KeepsFinished ==
    /\ is_playing' = FALSE
    /\ is_paused' = FALSE
    /\ current_frame_index' = 0
    /\ frame_timer' = 0
    /\ UNCHANGED <<current_animation, current_animation_name, finished>>

MgrStop_DropsClip ==
    /\ is_playing' = FALSE
    /\ is_paused' = FALSE
    /\ current_frame_index' = 0
    /\ frame_timer' = 0
    /\ finished' = FALSE
    /\ current_animation' = NoClip
    /\ current_animation_name' = ""

\* AnimationManager.stop
MgrStop ==
    /\ is_playing' = FALSE
    /\ is_paused' = FALSE
    /\ current_frame_index' = 0
    /\ frame_timer' = 0
    /\ finished' = FALSE
    /\ UNCHANGED <<current_animation, current_animation_name>>

MgrPause_Always ==
    /\ is_paused' = TRUE
    /\ UNCHANGED <<current_animation, current_animation_name, current_frame_index,
                   frame_timer, is_playing, finished>>

\* AnimationManager.pause
MgrPause ==
    /\ is_paused' = IF is_playing THEN TRUE ELSE is_paused
    /\ UNCHANGED <<current_animation, current_animation_name, current_frame_index,
                   frame_timer, is_playing, finished>>

\* AnimationManager.resume
MgrResume ==
    /\ is_paused' = IF is_playing /\ is_paused THEN FALSE ELSE is_paused
    /\ UNCHANGED <<current_animation, current_animation_name, current_frame_index,
                   frame_timer, is_playing, finished>>

UpdateSkips_IgnoresPause ==
    \/ ~is_playing
    \/ current_animation = NoClip
    \/ (finished /\ ~current_animation.loop)

\* the early returns of AnimationManager.update
UpdateSkips ==
    \/ ~is_playing
    \/ is_paused
    \/ current_animation = NoClip
    \/ (finished /\ ~current_animation.loop)

\* the frame timer after the frame boundary was reached
TimerAfterAdvance(timer, clip) == 0

FrameSteps_CatchUp(timer, clip) == timer \div frame_duration(clip)

\* how many frames one call steps once the boundary is reached: the boundary
\* is tested by a single if, not by a loop
FrameSteps(timer, clip) == 1

ClipEnded_OffByOne(idx, clip) == idx > Len(clip.frames)

\* the index has run past the last frame
ClipEnded(idx, clip) == idx >= Len(clip.frames)

\* AnimationManager.update
MgrUpdate(dt) ==
    IF UpdateSkips
    THEN UNCHANGED playerVars
    ELSE LET timer == frame_timer + dt
             clip  == current_animation
             idx   == current_frame_index + FrameSteps(timer, clip)
         IN  IF timer >= frame_duration(clip)
             THEN /\ frame_timer' = TimerAfterAdvance(timer, clip)
                  /\ IF ClipEnded(idx, clip)
                     THEN IF clip.loop
                          THEN /\ current_frame_index' = 0
                               /\ UNCHANGED <<finished, is_playing>>
                          ELSE /\ current_frame_index' = Len(clip.frames) - 1
                               /\ finished' = TRUE
                               /\ is_playing' = FALSE
                     ELSE /\ current_frame_index' = idx
                          /\ UNCHANGED <<finished, is_playing>>
                  /\ UNCHANGED <<current_animation, current_animation_name, is_paused>>
             ELSE /\ frame_timer' = timer
                  /\ UNCHANGED <<current_animation, current_animation_name,
                                 current_frame_index, is_playing, is_paused, finished>>

\* AnimationManager.remove_animation
MgrRemove(name) ==
    IF Registered(name)
    THEN /\ IF current_animation_name = name THEN MgrStop ELSE UNCHANGED playerVars
         /\ animations' = [animations EXCEPT ![name] = NoClip]
         /\ ret' = "True"
    ELSE UNCHANGED animVars /\ ret' = "False"

\* AnimationManager.clear_animations
MgrClear ==
    /\ MgrStop
    /\ animations' = [n \in Names |-> NoClip]

-----------------------------------------------------------------------------
(* Sprite entity: animation wrappers and update *)

ValidFrames_BoundIncluded(frames) == SelectSeq(frames, LAMBDA f : 0 <= f /\ f <= TotalFrames)

\* the frame indices add_animation keeps: those inside the atlas, in order
ValidFrames(frames) == SelectSeq(frames, LAMBDA f : 0 <= f /\ f < TotalFrames)

\* the atlas frame shown for the player's state, or the frame kept
VisualFrame(clip, idx, kept) ==
    IF clip # NoClip /\ 0 <= idx /\ idx < Len(clip.frames)
       /\ 0 <= clip.frames[idx + 1] /\ clip.frames[idx + 1] < TotalFrames
    THEN clip.frames[idx + 1]
    ELSE kept

\* the hitbox centre recomputed by update for the collision rectangle
UpdateCollisionCentre(s, r) == <<centerx(r) + s.off[1], centery(r) + s.off[2]>>

\* physics and rectangles of AnimatedSprite.update: velocity, then position,
\* then the draw rectangle of the new image, then the collision rectangle
UpdateSprite(s, dt) ==
    LET vel == <<s.vel[1] + s.acc[1] * dt, s.vel[2] + s.acc[2] * dt>>
        pos == <<s.pos[1] + vel[1] * dt, s.pos[2] + vel[2] * dt>>
        sz  == ImageSize(s)
        r   == SetCenter(Rect(0, 0, sz[1], sz[2]), Trunc(pos[1]), Trunc(pos[2]))
        c   == UpdateCollisionCentre(s, r)
    IN  [s EXCEPT !.vel = vel, !.pos = pos, !.rect = r,
                  !.crect = SetCenter(s.crect, c[1], c[2])]

NoQuery == [kind |-> "none", centres |-> {}, ocentres |-> {}, corners |-> <<>>, hit |-> FALSE]

\* AnimatedSprite.add_animation
AddAnimation(name, frames, fps, loop) ==
    /\ op' = Op("add", name, 0, FALSE, <<frames, fps>>)
    /\ IF AnimationValid(ValidFrames(frames), fps)
       THEN /\ MgrAddAnimation(Animation(name, ValidFrames(frames), fps, loop))
            /\ ret' = "None"
       ELSE /\ UNCHANGED animations
            /\ ret' = "ValueError"
    /\ unitRun' = -1
    /\ query' = NoQuery
    /\ UNCHANGED <<playerVars, mirrored, current_frame, a, b, otherVars>>

\* the mirror flag after play_animation(name, restart, mirror); mirror is
\* "None", "True" or "False"
MirrorAfterPlay(name, mirror) ==
    IF mirror # "None" THEN mirror = "True" ELSE mirrored

\* AnimatedSprite.play_animation
PlayAnimation(name, restart, mirror) ==
    /\ op' = Op("play", name, 0, restart, <<>>)
    /\ mirrored' = MirrorAfterPlay(name, mirror)
    /\ MgrPlay(name, restart)
    /\ query' = NoQuery
    /\ UNCHANGED <<animations, current_frame, a, b, otherVars>>

\* AnimatedSprite.stop_animation
StopAnimation ==
    /\ op' = Op("stop", "", 0, FALSE, <<>>)
    /\ MgrStop
    /\ ret' = "None"
    /\ unitRun' = -1
    /\ query' = NoQuery
    /\ UNCHANGED <<animations, mirrored, current_frame, a, b, otherVars>>

\* AnimatedSprite.pause_animation
PauseAnimation ==
    /\ op' = Op("pause", "", 0, FALSE, <<>>)
    /\ MgrPause
    /\ ret' = "None"
    /\ unitRun' = -1
    /\ query' = NoQuery
    /\ UNCHANGED <<animations, mirrored, current_frame, a, b, otherVars>>

\* AnimatedSprite.resume_animation
ResumeAnimation ==
    /\ op' = Op("resume", "", 0, FALSE, <<>>)
    /\ MgrResume
    /\ ret' = "None"
    /\ unitRun' = -1
    /\ query' = NoQuery
    /\ UNCHANGED <<animations, mirrored, current_frame, a, b, otherVars>>

\* advance(1/R) calls since the start: counted while every call so far was one
UnitRunAfter(dt) ==
    IF /\ unitRun >= 0
       /\ current_animation # NoClip
       /\ unitRun < Len(current_animation.frames)
       /\ dt = frame_duration(current_animation)
    THEN unitRun + 1
    ELSE -1

\* AnimatedSprite.update
Update(dt) ==
    /\ op' = Op("update", "", dt, FALSE, <<>>)
    /\ MgrUpdate(dt)
    /\ current_frame' = VisualFrame(current_animation', current_frame_index', current_frame)
    /\ a' = UpdateSprite(a, dt)
    /\ ret' = "None"
    /\ unitRun' = UnitRunAfter(dt)
    /\ query' = NoQuery
    /\ UNCHANGED <<animations, mirrored, b, otherVars>>

\* AnimationManager.remove_animation, on the sprite's manager
RemoveAnimation(name) ==
    /\ op' = Op("remove", name, 0, FALSE, <<>>)
    /\ MgrRemove(name)
    /\ unitRun' = -1
    /\ query' = NoQuery
    /\ UNCHANGED <<mirrored, current_frame, a, b, otherVars>>

\* AnimationManager.clear_animations, on the sprite's manager
ClearAnimations ==
    /\ op' = Op("clear", "", 0, FALSE, <<>>)
    /\ MgrClear
    /\ ret' = "None"
    /\ unitRun' = -1
    /\ query' = NoQuery
    /\ UNCHANGED <<mirrored, current_frame, a, b, otherVars>>

-----------------------------------------------------------------------------
(* Game and input tracker: values *)

MaxEvents == 2

\* the events of the model: K_PAUSE and K_p pause, K_F1 shows the frame rate,
\* MOUSEMOTION stands for the events the loop itself ignores
EventInputs == {"QUIT", "KEYDOWN_p", "KEYDOWN_PAUSE", "KEYDOWN_F1", "MOUSEMOTION"}

\* key_codes_to_check, of which the model keeps three; K_F13 is a key outside it
KeyCodesToCheck == {"K_LEFT", "K_SPACE", "K_p"}

Buttons == 1..3

NoButtons == [i \in Buttons |-> FALSE]

\* the fps the Game is constructed with: 1/fps is 20 ms
Fps == 50

\* Game.__init__; dt and last_time in milliseconds, all_sprites by identity
NewGame ==
    [running |-> FALSE, paused |-> FALSE, show_fps |-> FALSE,
     update_callback |-> FALSE, draw_callback |-> FALSE, pc |-> "init",
     dt |-> 0, last_time |-> 0, all_sprites |-> {}]

\* SceneManager.__init__ and the Scene objects constructed: scenes maps a name
\* to the object registered under it (0: none), current_scene is an object
\* (0: None), active is the flag of each object, calls the hooks called by the
\* last operation
SceneObjects == 1..4

NewScenes ==
    [scenes |-> [n \in {"menu", "game"} |-> 0], current_scene |-> 0,
     active |-> [o \in SceneObjects |-> FALSE], calls |-> <<>>, op |-> <<>>, ret |-> "None"]

\* the module globals of utils.py
NewInput ==
    [pressed |-> {}, just_pressed |-> {}, just_released |-> {},
     mouse_pressed |-> NoButtons, mouse_just_pressed |-> NoButtons,
     mouse_just_released |-> NoButtons]

NoHeld == [keys |-> {}, mouse |-> NoButtons]

\* nothing done yet in this tick: the steps taken, the events handled, QUIT among them
NoTick ==
    [steps |-> <<>>, handled |-> 0, quit |-> FALSE,
     tick |-> 0, reading |-> 0, prev |-> 0, started |-> ""]

InitOther ==
    /\ third = NewSprite(0, 0)
    /\ game = NewGame
    /\ events = <<>>
    /\ held = NoHeld
    /\ input = NewInput
    /\ tickLog = NoTick
    /\ ticks = 0
    /\ scene = NewScenes

\* AnimationManager.__init__ and AnimatedSprite.__init__
InitPlayer ==
    /\ animations = [n \in Names |-> NoClip]
    /\ current_animation = NoClip
    /\ current_animation_name = ""
    /\ current_frame_index = 0
    /\ frame_timer = 0
    /\ is_playing = FALSE
    /\ is_paused = FALSE
    /\ finished = FALSE
    /\ mirrored = FALSE
    /\ current_frame = 0

InitAnim ==
    /\ InitPlayer
    /\ InitOther
    /\ a = NewSprite(0, 0)
    /\ b = NewSprite(0, 0)
    /\ op = NoOp
    /\ ret = "None"
    /\ unitRun = -1
    /\ query = NoQuery

NextAnim ==
    \/ \E c \in ClipInputs, loop \in BOOLEAN : AddAnimation(c[1], c[2], c[3], loop)
    \/ \E name \in Names, restart \in BOOLEAN, mirror \in {"None", "True", "False"} :
           PlayAnimation(name, restart, mirror)
    \/ StopAnimation
    \/ PauseAnimation
    \/ ResumeAnimation
    \/ \E dt \in DtInputs : Update(dt)
    \/ \E name \in Names : RemoveAnimation(name)
    \/ ClearAnimations

SpecAnim == InitAnim /\ [][NextAnim]_vars

-----------------------------------------------------------------------------
(* Hitbox geometry and collision engine.                                   *)
(* World corners and the points tested against them are kept multiplied    *)
(* by CornerDen; hitbox sizes are even, so that half sizes are integers.   *)
(* sqrt(d2) <= r is decided as r >= 0 /\ d2 <= r*r, and an axis is used    *)
(* without being normalised: dividing by its positive length changes no    *)
(* comparison of projections.                                              *)

CornerDen == 5

SqrtLE(d2, r) == r >= 0 /\ d2 <= r * r

\* width and height of the rectangle hitbox in _get_corners
HitboxSize(s) ==
    IF s.custom # NoSize
    THEN s.custom
    ELSE <<FrameSize[1] * s.scale, FrameSize[2] * s.scale>>

CornersCentre_FromRect(s) == <<centerx(s.rect) + s.off[1], centery(s.rect) + s.off[2]>>

CornersCentre_Rounded(s) ==
    <<((s.pos[1] + 1) \div PosDen) + s.off[1], ((s.pos[2] + 1) \div PosDen) + s.off[2]>>

\* center_x, center_y of _get_corners
CornersCentre(s) == <<Trunc(s.pos[1]) + s.off[1], Trunc(s.pos[2]) + s.off[2]>>

\* AnimatedSprite._get_corners
GetCorners(s) ==
    LET sz == HitboxSize(s)
        c  == CornersCentre(s)
        hw == sz[1] \div 2
        hh == sz[2] \div 2
        local == << <<-hw, -hh>>, <<hw, -hh>>, <<hw, hh>>, <<-hw, hh>> >>
        cos_a == Cos5(s.rotation)
        sin_a == -Sin5(s.rotation)
        Turn(q) == IF s.rotation # 0
                   THEN <<q[1] * cos_a - q[2] * sin_a, q[1] * sin_a + q[2] * cos_a>>
                   ELSE <<CornerDen * q[1], CornerDen * q[2]>>
    IN  [i \in 1..4 |-> <<CornerDen * c[1] + Turn(local[i])[1],
                          CornerDen * c[2] + Turn(local[i])[2]>>]

Dot(q, n) == q[1] * n[1] + q[2] * n[2]

MinProj(corners, n) ==
    CHOOSE m \in {Dot(corners[i], n) : i \in 1..Len(corners)} :
        \A i \in 1..Len(corners) : m <= Dot(corners[i], n)

MaxProj(corners, n) ==
    CHOOSE m \in {Dot(corners[i], n) : i \in 1..Len(corners)} :
        \A i \in 1..Len(corners) : m >= Dot(corners[i], n)

\* the normal of the edge from corner i to the next corner
EdgeNormal(corners, i) ==
    LET p1 == corners[i]
        p2 == corners[(i % Len(corners)) + 1]
    IN  <<-(p2[2] - p1[2]), p2[1] - p1[1]>>

AxisUsed_All(n) == TRUE

\* the edges whose normal is tried as an axis: zero-length edges are skipped
AxisUsed(n) == n # <<0, 0>>

\* normal / length divides by zero
NormaliseRaises(n) == AxisUsed(n) /\ Dot(n, n) = 0

\* the separation test on one axis
Separated(corners_a, corners_b, n) ==
    \/ MaxProj(corners_a, n) < MinProj(corners_b, n)
    \/ MaxProj(corners_b, n) < MinProj(corners_a, n)

\* _separating_axis_test raises ZeroDivisionError: an edge of zero length is
\* normalised before any axis has separated the polygons
SeparatingAxisRaises(corners_a, corners_b) ==
    \E k \in 1..2 : \E i \in 1..4 :
        LET poly == IF k = 1 THEN corners_a ELSE corners_b
            earlier == {<<k2, i2>> \in (1..2) \X (1..4) : k2 < k \/ (k2 = k /\ i2 < i)}
        IN  /\ NormaliseRaises(EdgeNormal(poly, i))
            /\ \A e \in earlier :
                   LET n == EdgeNormal(IF e[1] = 1 THEN corners_a ELSE corners_b, e[2])
                   IN  ~NormaliseRaises(n)
                       /\ ~(AxisUsed(n) /\ Separated(corners_a, corners_b, n))

\* AnimatedSprite._separating_axis_test
SeparatingAxisTest(corners_a, corners_b) ==
    ~ \E poly \in {corners_a, corners_b} : \E i \in 1..Len(poly) :
          /\ AxisUsed(EdgeNormal(poly, i))
          /\ Separated(corners_a, corners_b, EdgeNormal(poly, i))

\* AnimatedSprite._check_precise_rect_collision
CheckPreciseRectCollision(s, o) == SeparatingAxisTest(GetCorners(s), GetCorners(o))

\* center1 and center2 of _check_circle_collision
CircleCentre(s) == <<Trunc(s.pos[1]) + s.off[1], Trunc(s.pos[2]) + s.off[2]>>

CirclesTouch_Strict(d2, r) == r >= 0 /\ d2 < r * r

\* distance <= sum of the radii, for the squared distance d2
CirclesTouch(d2, r) == SqrtLE(d2, r)

\* AnimatedSprite._check_circle_collision
CheckCircleCollision(s, o) ==
    LET dx == CircleCentre(o)[1] - CircleCentre(s)[1]
        dy == CircleCentre(o)[2] - CircleCentre(s)[2]
    IN  CirclesTouch(dx * dx + dy * dy, s.radius + o.radius)

\* AnimatedSprite._point_in_polygon, from iteration i on; xi is xinters as
\* <<numerator, denominator, p1x>>, or <<>> while it was never assigned
RECURSIVE RayCast(_, _, _, _, _)
RayCast(point, polygon, i, inside, xi) ==
    IF i > Len(polygon)
    THEN [inside |-> inside, raised |-> FALSE]
    ELSE LET n  == Len(polygon)
             p1 == polygon[((i - 1) % n) + 1]
             p2 == polygon[(i % n) + 1]
             x  == point[1]
             y  == point[2]
             reached == /\ y > Min2(p1[2], p2[2])
                        /\ y <= Max2(p1[2], p2[2])
                        /\ x <= Max2(p1[1], p2[1])
             xj == IF reached /\ p1[2] # p2[2]
                   THEN <<(y - p1[2]) * (p2[1] - p1[1]), p2[2] - p1[2], p1[1]>>
                   ELSE xi
             below == IF xj[2] > 0
                      THEN (x - xj[3]) * xj[2] <= xj[1]
                      ELSE (x - xj[3]) * xj[2] >= xj[1]
         IN  IF ~reached
             THEN RayCast(point, polygon, i + 1, inside, xi)
             ELSE IF p1[1] = p2[1]
             THEN RayCast(point, polygon, i + 1, ~inside, xj)
             ELSE IF xj = <<>>
             THEN [inside |-> inside, raised |-> TRUE]
             ELSE RayCast(point, polygon, i + 1, IF below THEN ~inside ELSE inside, xj)

\* AnimatedSprite._point_in_polygon
PointInPolygon(point, polygon) == RayCast(point, polygon, 1, FALSE, <<>>)

\* the largest c with c*c inside the 32-bit integers
SqrtMaxInt == 46340

\* line_len_sq == 0: the segment is a point
SegmentIsPoint(p1, p2) ==
    Dot(<<p2[1] - p1[1], p2[2] - p1[2]>>, <<p2[1] - p1[1], p2[2] - p1[2]>>) = 0

\* dot_product / line_len_sq divides by zero
PointToLineRaises(p1, p2) ==
    /\ ~SegmentIsPoint(p1, p2)
    /\ Dot(<<p2[1] - p1[1], p2[2] - p1[2]>>, <<p2[1] - p1[1], p2[2] - p1[2]>>) = 0

RECURSIVE Gcd(_, _)
Gcd(x, y) == IF y = 0 THEN x ELSE Gcd(y, x % y)

\* the <<point, p1, p2>> among the inputs checked here for which the foot
\* point p1 + t * line_vec, computed in double precision, is not the exact
\* foot point although the point lies on the segment: the distance returned
\* is then of the order 1e-14 instead of 0
FootMissed ==
    { << <<-545, -1120>>, <<-1120, -1120>>, <<1120, -1120>> >> }

\* AnimatedSprite._point_to_line_distance(point, p1, p2) <= r.  With
\* 0 < t < 1 the distance is |cross| / |line_vec|, so it is compared as
\* cross^2 <= r^2 * line_len_sq, with line_vec reduced by the common divisor
\* of its components.
PointToLineDistanceLE(point, p1, p2, r) ==
    LET line_vec    == <<p2[1] - p1[1], p2[2] - p1[2]>>
        point_vec   == <<point[1] - p1[1], point[2] - p1[2]>>
        line_len_sq == Dot(line_vec, line_vec)
        dot_product == Dot(point_vec, line_vec)
        end_vec     == <<point[1] - p2[1], point[2] - p2[2]>>
        g           == Gcd(Abs(line_vec[1]), Abs(line_vec[2]))
        unit        == <<line_vec[1] \div g, line_vec[2] \div g>>
        cross       == Abs(unit[1] * point_vec[2] - unit[2] * point_vec[1])
    IN  IF SegmentIsPoint(p1, p2) THEN SqrtLE(Dot(point_vec, point_vec), r)
        ELSE IF dot_product <= 0 THEN SqrtLE(Dot(point_vec, point_vec), r)
        ELSE IF dot_product >= line_len_sq THEN SqrtLE(Dot(end_vec, end_vec), r)
        ELSE IF cross = 0 /\ <<point, p1, p2>> \in FootMissed THEN r > 0
        ELSE r >= 0 /\ cross <= SqrtMaxInt /\ cross * cross <= r * r * Dot(unit, unit)

\* circle_center of _check_polygon_circle_collision
PolygonCircleCentre(s) == <<Trunc(s.pos[1]) + s.off[1], Trunc(s.pos[2]) + s.off[2]>>

\* AnimatedSprite._check_polygon_circle_collision
CheckPolygonCircleCollision(circle, rect) ==
    LET c       == PolygonCircleCentre(circle)
        centre  == <<CornerDen * c[1], CornerDen * c[2]>>
        polygon == GetCorners(rect)
    IN  \/ PointInPolygon(centre, polygon).inside
        \/ \E i \in 1..Len(polygon) :
              PointToLineDistanceLE(centre, polygon[i], polygon[(i % Len(polygon)) + 1],
                                    CornerDen * circle.radius)

\* a comparison with hitbox_radius raises TypeError: the radius is None
RadiusMissing(s) == s.radius = NoRadius

\* _check_polygon_circle_collision raises: in the point-in-polygon test, or
\* in the test of an edge reached before any edge was close enough
PolygonCircleRaises(circle, rect) ==
    LET c       == PolygonCircleCentre(circle)
        centre  == <<CornerDen * c[1], CornerDen * c[2]>>
        polygon == GetCorners(rect)
        pip     == PointInPolygon(centre, polygon)
        Near(i) == PointToLineDistanceLE(centre, polygon[i], polygon[(i % Len(polygon)) + 1],
                                         CornerDen * circle.radius)
    IN  \/ pip.raised
        \/ /\ ~pip.inside
           /\ \E i \in 1..Len(polygon) :
                 /\ \A j \in 1..(i - 1) : ~Near(j)
                 /\ \/ PointToLineRaises(polygon[i], polygon[(i % Len(polygon)) + 1])
                    \/ RadiusMissing(circle)

\* circle_center of _check_circle_rect_collision
RectCircleCentre(s) == <<Trunc(s.pos[1]) + s.off[1], Trunc(s.pos[2]) + s.off[2]>>

\* rect_center_x, rect_center_y of _check_circle_rect_collision
AABBCentre(s) == <<Trunc(s.pos[1]) + s.off[1], Trunc(s.pos[2]) + s.off[2]>>

\* the closest-point test of _check_circle_rect_collision, in half pixels
CheckCircleAABB(circle, rect) ==
    LET cc == RectCircleCentre(circle)
        rc == AABBCentre(rect)
        rect_width  == FrameSize[1] * rect.scale
        rect_height == FrameSize[2] * rect.scale
        closest_x == Max2(2 * rc[1] - rect_width, Min2(2 * cc[1], 2 * rc[1] + rect_width))
        closest_y == Max2(2 * rc[2] - rect_height, Min2(2 * cc[2], 2 * rc[2] + rect_height))
        dx == 2 * cc[1] - closest_x
        dy == 2 * cc[2] - closest_y
    IN  SqrtLE(dx * dx + dy * dy, 2 * circle.radius)

CircleOf_AlwaysSelf(s, o) == s

\* circle_sprite of _check_circle_rect_collision
CircleOf(s, o) == IF s.shape = "circle" THEN s ELSE o

\* rect_sprite of _check_circle_rect_collision
RectOf(s, o) == IF s.shape = "circle" THEN o ELSE s

\* AnimatedSprite._check_circle_rect_collision
CheckCircleRectCollision(s, o) ==
    IF RectOf(s, o).rotation # 0 \/ RectOf(s, o).custom # NoSize
    THEN CheckPolygonCircleCollision(CircleOf(s, o), RectOf(s, o))
    ELSE CheckCircleAABB(CircleOf(s, o), RectOf(s, o))

\* collides_with raises instead of returning
CollisionRaises(s, o) ==
    IF s.shape = "circle" /\ o.shape = "circle"
    THEN RadiusMissing(s) \/ RadiusMissing(o)
    ELSE IF s.shape = "circle" \/ o.shape = "circle"
    THEN IF RectOf(s, o).rotation # 0 \/ RectOf(s, o).custom # NoSize
         THEN PolygonCircleRaises(CircleOf(s, o), RectOf(s, o))
         ELSE RadiusMissing(CircleOf(s, o))
    ELSE SeparatingAxisRaises(GetCorners(s), GetCorners(o))

\* AnimatedSprite.collides_with
CollidesWith(s, o) ==
    IF s.shape = "circle" /\ o.shape = "circle" THEN CheckCircleCollision(s, o)
    ELSE IF s.shape = "circle" \/ o.shape = "circle" THEN CheckCircleRectCollision(s, o)
    ELSE CheckPreciseRectCollision(s, o)

-----------------------------------------------------------------------------
(* Sprite entity: position, transform and hitbox operations *)

\* AnimatedSprite.set_position
SetPositionOf(s, x, y) == [s EXCEPT !.pos = <<x, y>>]

\* the collision rectangle centre written by the x and y setters
SetterCollisionCentre(s, v, axis) == Trunc(v) + s.off[axis]

\* AnimatedSprite.x setter
SetXOf(s, v) ==
    [s EXCEPT !.pos[1] = v,
              !.rect   = SetCenterx(@, Trunc(v)),
              !.crect  = SetCenterx(@, SetterCollisionCentre(s, v, 1))]

\* AnimatedSprite.y setter
SetYOf(s, v) ==
    [s EXCEPT !.pos[2] = v,
              !.rect   = SetCentery(@, Trunc(v)),
              !.crect  = SetCentery(@, SetterCollisionCentre(s, v, 2))]

\* AnimatedSprite.set_rotation
SetRotationOf(s, angle) == [s EXCEPT !.rotation = angle % 360]

\* AnimatedSprite.set_scale, for the positive integer scales of the model
\* (max(0.1, scale) is scale)
SetScaleOf(s, scale) == [s EXCEPT !.scale = scale]

\* AnimatedSprite.set_collision_rect
SetCollisionRectOf(s, w, h, ox, oy) ==
    [s EXCEPT !.crect = Rect(0, 0, w, h), !.off = <<ox, oy>>,
              !.custom = <<w, h>>, !.shape = "rect"]

\* AnimatedSprite.set_collision_circle
SetCollisionCircleOf(s, r, ox, oy) ==
    [s EXCEPT !.shape = "circle", !.radius = r, !.off = <<ox, oy>>,
              !.crect = Rect(0, 0, 2 * r, 2 * r)]

\* AnimatedSprite.reset_collision_to_default
ResetCollisionOf(s) ==
    [s EXCEPT !.custom = NoSize, !.shape = "rect", !.radius = NoRadius, !.off = <<0, 0>>]

\* center of debug_draw for a circle hitbox
DebugCircleCentre(s) == <<Trunc(s.pos[1]) + s.off[1], Trunc(s.pos[2]) + s.off[2]>>

\* int(v) for a corner coordinate v counted in 1/CornerDen pixel
TruncCorner(v) == IF v >= 0 THEN v \div CornerDen ELSE -((-v) \div CornerDen)

\* the hitbox centres derived for one sprite while s.collides_with(o) runs:
\* for s itself (self = TRUE) or for o
CentresDerived(s, o, self) ==
    LET x == IF self THEN s ELSE o
    IN  IF s.shape = "circle" /\ o.shape = "circle" THEN {CircleCentre(x)}
        ELSE IF s.shape = "circle" \/ o.shape = "circle"
        THEN LET polygon == RectOf(s, o).rotation # 0 \/ RectOf(s, o).custom # NoSize
             IN  IF x.shape = "circle"
                 THEN {RectCircleCentre(x)}
                      \cup (IF polygon THEN {PolygonCircleCentre(x)} ELSE {})
                 ELSE IF polygon THEN {CornersCentre(x)} ELSE {AABBCentre(x)}
        ELSE {CornersCentre(x)}

spriteIdle == <<animVars, mirrored, current_frame, ret, unitRun>>

\* sprite.set_position(x, y)
SetPosition(x, y) ==
    /\ op' = Op("set_position", "", 0, FALSE, <<x, y>>)
    /\ a' = SetPositionOf(a, x, y)
    /\ query' = NoQuery
    /\ UNCHANGED <<spriteIdle, b, otherVars>>

\* sprite.x = v
SetX(v) ==
    /\ op' = Op("set_x", "", 0, FALSE, <<v>>)
    /\ a' = SetXOf(a, v)
    /\ query' = NoQuery
    /\ UNCHANGED <<spriteIdle, b, otherVars>>

\* sprite.y = v
SetY(v) ==
    /\ op' = Op("set_y", "", 0, FALSE, <<v>>)
    /\ a' = SetYOf(a, v)
    /\ query' = NoQuery
    /\ UNCHANGED <<spriteIdle, b, otherVars>>

\* sprite.set_rotation(angle)
SetRotation(angle) ==
    /\ op' = Op("set_rotation", "", 0, FALSE, <<>>)
    /\ a' = SetRotationOf(a, angle)
    /\ query' = NoQuery
    /\ UNCHANGED <<spriteIdle, b, otherVars>>

\* sprite.set_collision_rect(w, h, ox, oy)
SetCollisionRect(w, h, ox, oy) ==
    /\ op' = Op("set_collision_rect", "", 0, FALSE, <<>>)
    /\ a' = SetCollisionRectOf(a, w, h, ox, oy)
    /\ query' = NoQuery
    /\ UNCHANGED <<spriteIdle, b, otherVars>>

\* sprite.set_collision_circle(r, ox, oy)
SetCollisionCircle(r, ox, oy) ==
    /\ op' = Op("set_collision_circle", "", 0, FALSE, <<>>)
    /\ a' = SetCollisionCircleOf(a, r, ox, oy)
    /\ query' = NoQuery
    /\ UNCHANGED <<spriteIdle, b, otherVars>>

\* sprite.reset_collision_to_default()
ResetCollision ==
    /\ op' = Op("reset_collision", "", 0, FALSE, <<>>)
    /\ a' = ResetCollisionOf(a)
    /\ query' = NoQuery
    /\ UNCHANGED <<spriteIdle, b, otherVars>>

\* sprite._get_corners()
QueryCorners ==
    /\ op' = Op("corners", "", 0, FALSE, <<>>)
    /\ query' = [kind |-> "corners", centres |-> {CornersCentre(a)}, ocentres |-> {},
                 corners |-> GetCorners(a), hit |-> FALSE]
    /\ UNCHANGED <<spriteIdle, a, b, otherVars>>

\* a.collides_with(b) for dir = "ab", b.collides_with(a) for dir = "ba"
QueryCollides(dir) ==
    LET s == IF dir = "ab" THEN a ELSE b
        o == IF dir = "ab" THEN b ELSE a
    IN  /\ op' = Op("collides", dir, 0, FALSE, <<>>)
        /\ query' = [kind |-> "collides",
                     centres  |-> CentresDerived(s, o, dir = "ab"),
                     ocentres |-> CentresDerived(s, o, dir # "ab"),
                     corners  |-> <<>>,
                     hit      |-> CollidesWith(s, o),
                     raised   |-> CollisionRaises(s, o)]
        /\ UNCHANGED <<spriteIdle, a, b, otherVars>>

\* sprite.debug_draw(screen): the centre and the integer corners handed to pygame.draw
DebugDraw ==
    /\ op' = Op("debug_draw", "", 0, FALSE, <<>>)
    /\ query' = IF a.shape = "circle"
                THEN [kind |-> "debug", centres |-> {DebugCircleCentre(a)}, ocentres |-> {},
                      corners |-> <<>>, hit |-> FALSE]
                ELSE [kind |-> "debug", centres |-> {CornersCentre(a)}, ocentres |-> {},
                      corners |-> [i \in 1..4 |-> <<TruncCorner(GetCorners(a)[i][1]),
                                                    TruncCorner(GetCorners(a)[i][2])>>],
                      hit |-> FALSE]
    /\ UNCHANGED <<spriteIdle, a, b, otherVars>>

-----------------------------------------------------------------------------
(* The sprite under position writes and hitbox queries *)

PosXInputs == {-3, 5, 120}

PosYInputs == {0, 7}

OffsetInputs == {<<0, 0>>, <<3, -2>>}

\* the other sprite: a default rectangle, a rotated custom rectangle, or a circle
OtherSprites ==
    { SetPositionOf(NewSprite(0, 0), 120, 0),
      SetRotationOf(SetCollisionRectOf(SetPositionOf(NewSprite(0, 0), 31, -1), 20, 10, 3, -2), 53),
      SetCollisionCircleOf(SetPositionOf(NewSprite(0, 0), 30, 0), 10, 0, 0) }

InitSprite ==
    /\ InitPlayer
    /\ InitOther
    /\ a = NewSprite(0, 0)
    /\ b \in OtherSprites
    /\ op = NoOp
    /\ ret = "None"
    /\ unitRun = -1
    /\ query = NoQuery

NextSprite ==
    \/ \E x \in PosXInputs, y \in PosYInputs : SetPosition(x, y)
    \/ \E v \in PosXInputs : SetX(v)
    \/ \E v \in PosYInputs : SetY(v)
    \/ \E angle \in Rotations : SetRotation(angle)
    \/ \E off \in OffsetInputs : SetCollisionRect(20, 10, off[1], off[2])
    \/ \E off \in OffsetInputs : SetCollisionCircle(10, off[1], off[2])
    \/ ResetCollision
    \/ Update(10)
    \/ QueryCorners
    \/ \E dir \in {"ab", "ba"} : QueryCollides(dir)
    \/ DebugDraw

SpecSprite == InitSprite /\ [][NextSprite]_vars

-----------------------------------------------------------------------------
(* Position writes and screen wrapping *)

\* AnimatedSprite.move
MoveOf(s, dx, dy) == [s EXCEPT !.pos = <<s.pos[1] + dx, s.pos[2] + dy>>]

\* the draw rectangle after the horizontal test of wrap_screen
WrapX(r, screen) ==
    IF r.x + r.w < 0 THEN [r EXCEPT !.x = screen.x + screen.w]
    ELSE IF r.x > screen.x + screen.w THEN [r EXCEPT !.x = 0 - r.w]
    ELSE r

\* the draw rectangle after the vertical test of wrap_screen
WrapY(r, screen) ==
    IF r.y + r.h < 0 THEN [r EXCEPT !.y = screen.y + screen.h]
    ELSE IF r.y > screen.y + screen.h THEN [r EXCEPT !.y = 0 - r.h]
    ELSE r

\* AnimatedSprite.wrap_screen
WrapScreenOf(s, screen) ==
    LET r == WrapY(WrapX(s.rect, screen), screen)
    IN  [s EXCEPT !.rect = r, !.pos = <<PosDen * centerx(r), PosDen * centery(r)>>]

\* the screen rectangle wrap_screen is called with
ScreenRect == Rect(0, 0, 200, 100)

\* sprite.move(dx, dy)
Move(dx, dy) ==
    /\ op' = Op("move", "", 0, FALSE, <<dx, dy>>)
    /\ a' = MoveOf(a, dx, dy)
    /\ query' = NoQuery
    /\ UNCHANGED <<spriteIdle, b, otherVars>>

\* sprite.move_to(x, y) without a speed
MoveTo(x, y) ==
    /\ op' = Op("move_to", "", 0, FALSE, <<x, y>>)
    /\ a' = SetPositionOf(a, x, y)
    /\ query' = NoQuery
    /\ UNCHANGED <<spriteIdle, b, otherVars>>

\* sprite.wrap_screen(screen_rect)
WrapScreen ==
    /\ op' = Op("wrap_screen", "", 0, FALSE, <<>>)
    /\ a' = WrapScreenOf(a, ScreenRect)
    /\ query' = NoQuery
    /\ UNCHANGED <<spriteIdle, b, otherVars>>

MaxPos == 500

\* the positions written, in 1/PosDen pixels
WrapPositions == {<<200, 100>>, <<201, 100>>, <<-80, 60>>}

\* a sprite at rest and one moving to the right
InitWrap ==
    /\ InitPlayer
    /\ InitOther
    /\ a \in {NewSprite(0, 0), [NewSprite(0, 0) EXCEPT !.vel = <<20, 0>>]}
    /\ b = NewSprite(0, 0)
    /\ op = NoOp
    /\ ret = "None"
    /\ unitRun = -1
    /\ query = NoQuery

NextWrap ==
    \/ \E q \in WrapPositions : SetPosition(q[1], q[2])
    \/ \E q \in WrapPositions : MoveTo(q[1], q[2])
    \/ \E q \in WrapPositions : SetX(q[1])
    \/ \E q \in WrapPositions : SetY(q[2])
    \/ (Abs(a.pos[1]) <= MaxPos /\ Move(90, 0))
    \/ (Abs(a.pos[1]) <= MaxPos /\ Update(10))
    \/ WrapScreen

SpecWrap == InitWrap /\ [][NextWrap]_vars

-----------------------------------------------------------------------------
(* Pairs of sprites under collision queries *)

RectSizeInputs == {<<0, 10>>, <<20, 10>>}

RadiusInputs == {0, 10}

CollideOffsets == {<<0, 0>>, <<3, 0>>}

\* the hitbox and transform configurations of a sprite s
SpriteConfigs(s) ==
    {SetScaleOf(SetRotationOf(s, r), sc) : r \in Rotations, sc \in {1, 2}}
    \cup {SetRotationOf(SetCollisionRectOf(s, sz[1], sz[2], off[1], off[2]), r) :
             sz \in RectSizeInputs, off \in CollideOffsets, r \in Rotations}
    \cup {SetRotationOf(SetCollisionRectOf(s, 0, 0, 0, 0), r) : r \in Rotations}
    \cup {SetCollisionCircleOf(s, r, off[1], off[2]) :
             r \in RadiusInputs, off \in CollideOffsets}

PositionsA == {<<0, 0>>, <<-1, 1>>}

PositionsB == {-1, 30, 40, 50, 120, 128, 140} \X {0, 1, 200}

InitCollide ==
    /\ InitPlayer
    /\ InitOther
    /\ \E q \in PositionsA : a \in SpriteConfigs(SetPositionOf(NewSprite(0, 0), q[1], q[2]))
    /\ \E q \in PositionsB : b \in SpriteConfigs(SetPositionOf(NewSprite(0, 0), q[1], q[2]))
    /\ op = NoOp
    /\ ret = "None"
    /\ unitRun = -1
    /\ query = NoQuery

NextCollide == \E dir \in {"ab", "ba"} : QueryCollides(dir)

SpecCollide == InitCollide /\ [][NextCollide]_vars

-----------------------------------------------------------------------------
(* A circle against an unrotated rectangle of default size: both paths *)

FastPathScales == {1, 7}

FastPathCentres == {-109, -100, 0, 38, 224, 234} \X {-235, -234, -224, 0, 32, 40, 42, 43}

\* the closest-point path and the polygon path for the circle b and the
\* rectangle a
QueryPaths ==
    /\ op' = Op("paths", "", 0, FALSE, <<>>)
    /\ query' = [NoQuery EXCEPT !.kind = "fast_path"]
                    @@ [fast    |-> CheckCircleAABB(b, a),
                        general |-> CheckPolygonCircleCollision(b, a)]
    /\ UNCHANGED <<spriteIdle, a, b, otherVars>>

InitFastPath ==
    /\ InitPlayer
    /\ InitOther
    /\ \E sc \in FastPathScales : a = SetScaleOf(NewSprite(0, 0), sc)
    /\ \E q \in FastPathCentres, r \in RadiusInputs :
           b = SetCollisionCircleOf(
                   SetPositionOf(NewSprite(0, 0), PosDen * q[1], PosDen * q[2]), r, 0, 0)
    /\ op = NoOp
    /\ ret = "None"
    /\ unitRun = -1
    /\ query = NoQuery

NextFastPath == QueryPaths

SpecFastPath == InitFastPath /\ [][NextFastPath]_vars

-----------------------------------------------------------------------------
(* Scenes and the scene manager *)

\* Scene.name of each scene object: objects 1 and 3 are both named "menu",
\* objects 2 and 4 "game"
SceneName(o) == IF o \in {2, 4} THEN "game" ELSE "menu"

\* the names passed to switch_to; "credits" is never registered
SwitchInputs == {"menu", "game", "credits"}

\* scene_name in self.scenes
HasScene(sc, name) == name \in DOMAIN sc.scenes /\ sc.scenes[name] # 0

\* Scene.on_enter
OnEnter(sc, o) ==
    [sc EXCEPT !.active[o] = TRUE, !.calls = Append(@, <<"on_enter", o>>)]

\* Scene.on_exit
OnExit(sc, o) ==
    [sc EXCEPT !.active[o] = FALSE, !.calls = Append(@, <<"on_exit", o>>)]

ExitCurrent_Skipped(sc) == sc

\* if self.current_scene: self.current_scene.on_exit()
ExitCurrent(sc) ==
    IF sc.current_scene # 0 THEN OnExit(sc, sc.current_scene) ELSE sc

\* SceneManager.add_scene
AddSceneOf(sc, o) ==
    [sc EXCEPT !.scenes[SceneName(o)] = o, !.calls = <<>>,
               !.op = <<"add_scene", o>>, !.ret = "None"]

\* SceneManager.switch_to
SwitchToOf(sc, name) ==
    LET called == [sc EXCEPT !.calls = <<>>, !.op = <<"switch_to", name>>]
    IN  IF HasScene(sc, name)
        THEN [OnEnter([ExitCurrent(called) EXCEPT !.current_scene = sc.scenes[name]],
                      sc.scenes[name])
                 EXCEPT !.ret = "True"]
        ELSE [called EXCEPT !.ret = "False"]

sceneIdle == <<spriteIdle, a, b, op, query, third, game, events, held, input,
               tickLog, ticks>>

\* scene_manager.add_scene(scene)
AddScene(o) ==
    /\ scene' = AddSceneOf(scene, o)
    /\ UNCHANGED sceneIdle

\* scene_manager.switch_to(scene_name)
SwitchTo(name) ==
    /\ scene' = SwitchToOf(scene, name)
    /\ UNCHANGED sceneIdle

InitScene ==
    /\ InitPlayer
    /\ InitOther
    /\ a = NewSprite(0, 0)
    /\ b = NewSprite(0, 0)
    /\ op = NoOp
    /\ ret = "None"
    /\ unitRun = -1
    /\ query = NoQuery

NextScene ==
    \/ \E o \in SceneObjects : AddScene(o)
    \/ \E name \in SwitchInputs : SwitchTo(name)

SpecScene == InitScene /\ [][NextScene]_vars

-----------------------------------------------------------------------------
(* Animation player: properties *)

\* C1: play(name) without restart, for the registered clip that is the active
\* one, is playing and is not finished, returns success and leaves the frame
\* index and the frame timer as they were.
C1_PlayIdempotent ==
    [][(/\ op'.kind = "play"
        /\ ~op'.flag
        /\ Registered(op'.name)
        /\ current_animation_name = op'.name
        /\ is_playing
        /\ ~finished)
       => (/\ ret' = "True"
           /\ current_frame_index' = current_frame_index
           /\ frame_timer' = frame_timer)]_vars

\* a successful play without restart has left a clip in the middle of its playback
C1_Witness ==
    /\ op.kind = "play"
    /\ ~op.flag
    /\ ret = "True"
    /\ is_playing
    /\ current_frame_index > 0
    /\ frame_timer > 0

\* C2: one update moves the frame index by at most one step (or wraps a
\* looping clip from its last frame to 0), however large dt is; a just started
\* non-looping clip [0,1,2] at rate 10 is on index 1, unfinished, after
\* update(0.35).
C2_OneStepPerCall ==
    [][op'.kind = "update"
       => (/\ \/ current_frame_index' = current_frame_index
              \/ current_frame_index' = current_frame_index + 1
              \/ /\ current_animation.loop
                 /\ current_frame_index = Len(current_animation.frames) - 1
                 /\ current_frame_index' = 0
           /\ (/\ unitRun = 0
               /\ op'.n = 35
               /\ current_animation.frames = <<0, 1, 2>>
               /\ current_animation.fps = 10
               /\ ~current_animation.loop)
              => (current_frame_index' = 1 /\ ~finished' /\ is_playing'))]_vars

\* update(0.35) has acted on a playing non-looping clip [0,1,2] at rate 10
C2_Witness ==
    /\ op.kind = "update"
    /\ op.n = 35
    /\ current_animation.frames = <<0, 1, 2>>
    /\ current_animation.fps = 10
    /\ ~current_animation.loop
    /\ current_frame_index = 1
    /\ is_playing
    /\ ~is_paused

\* C3: N updates by 1/R after the start of a clip of N frames at rate R bring
\* a looping clip back to index 0, still playing, and a non-looping clip to
\* index N-1 with finished set and playing cleared.
C3_FullCycle ==
    (current_animation # NoClip /\ unitRun = Len(current_animation.frames))
    => IF current_animation.loop
       THEN current_frame_index = 0 /\ is_playing /\ ~finished
       ELSE /\ current_frame_index = Len(current_animation.frames) - 1
            /\ finished
            /\ ~is_playing

\* a non-looping clip of three frames has been advanced three times by 1/R
C3_Witness ==
    /\ current_animation # NoClip
    /\ Len(current_animation.frames) >= 3
    /\ unitRun = Len(current_animation.frames)
    /\ ~current_animation.loop
    /\ finished

\* C4: finished implies that the current clip does not loop and that the
\* frame index is the last index of that clip.
C4_FinishedInvariant ==
    finished => /\ current_animation # NoClip
                /\ ~current_animation.loop
                /\ current_frame_index = Len(current_animation.frames) - 1

\* a finished clip of several frames whose name has since been registered again
C4_Witness ==
    /\ finished
    /\ Len(current_animation.frames) >= 2
    /\ op.kind = "add"
    /\ op.name = current_animation_name
    /\ ret = "None"

\* C5: play(name) for a name that is not registered returns the failure
\* indicator and changes nothing: not the player, not the registered clips,
\* not the sprite, not its mirror flag.
C5_PlayUnknownChangesNothing ==
    [][(op'.kind = "play" /\ ~Registered(op'.name))
       => (/\ ret' = "False"
           /\ UNCHANGED <<animVars, mirrored, current_frame, a>>)]_vars

-----------------------------------------------------------------------------
(* Hitbox geometry and collision engine: properties *)

\* c is the coordinate v (counted in 1/PosDen pixel) truncated toward zero
IsTruncOf(c, v) ==
    /\ c * v >= 0
    /\ Abs(c) * PosDen <= Abs(v)
    /\ Abs(v) < (Abs(c) + 1) * PosDen

\* c is the position of s truncated to integers plus its hitbox offset
IsCentreOf(c, s) ==
    /\ IsTruncOf(c[1] - s.off[1], s.pos[1])
    /\ IsTruncOf(c[2] - s.off[2], s.pos[2])

TruncatedCentre(s) ==
    CHOOSE c \in (-(Abs(s.pos[1]) + 8)..(Abs(s.pos[1]) + 8))
                 \X (-(Abs(s.pos[2]) + 8)..(Abs(s.pos[2]) + 8)) : IsCentreOf(c, s)

\* C6: a.collides_with(b) equals b.collides_with(a) for every pair of hitbox
\* shapes, rotations, scales, custom sizes and offsets.
C6_CollisionSymmetric ==
    query.kind = "collides"
    => query.hit = (IF op.name = "ab" THEN CollidesWith(b, a) ELSE CollidesWith(a, b))

\* a rotated rectangle asked about a circle it overlaps
C6_Witness ==
    /\ query.kind = "collides"
    /\ op.name = "ba"
    /\ a.shape = "circle"
    /\ b.shape = "rect"
    /\ b.rotation = 53
    /\ b.custom # NoSize
    /\ query.hit

\* the ends of the range an unrotated rectangle hitbox covers on an axis, in half pixels
RangeLo(s, axis) == 2 * (TruncatedCentre(s)[axis]) - HitboxSize(s)[axis]

RangeHi(s, axis) == 2 * (TruncatedCentre(s)[axis]) + HitboxSize(s)[axis]

RangesDisjoint(s, o, axis) ==
    RangeHi(s, axis) < RangeLo(o, axis) \/ RangeHi(o, axis) < RangeLo(s, axis)

BothUnrotatedRects == a.shape = "rect" /\ b.shape = "rect" /\ a.rotation = 0 /\ b.rotation = 0

DefaultAt(s, x, y) ==
    /\ s.custom = NoSize /\ s.scale = 1 /\ s.shape = "rect" /\ s.rotation = 0
    /\ s.pos = <<x * PosDen, y * PosDen>>

\* C7: two unrotated rectangle hitboxes (degenerate sizes included) whose
\* x-ranges or whose y-ranges do not overlap do not collide; 64x64 sprites
\* with centres (0,0) and (70,0) do not collide, with (0,0) and (60,0) they do.
C7_DisjointRangesNeverCollide ==
    query.kind = "collides"
    => /\ (BothUnrotatedRects /\ (RangesDisjoint(a, b, 1) \/ RangesDisjoint(a, b, 2)))
          => ~query.hit
       /\ (DefaultAt(a, 0, 0) /\ DefaultAt(b, 70, 0)) => ~query.hit
       /\ (DefaultAt(a, 0, 0) /\ DefaultAt(b, 60, 0)) => query.hit

CircleAt(s, r, x, y) ==
    s.shape = "circle" /\ s.radius = r /\ s.off = <<0, 0>> /\ s.pos = <<x * PosDen, y * PosDen>>

CentreDist2(s, o) ==
    (TruncatedCentre(o)[1] - TruncatedCentre(s)[1]) * (TruncatedCentre(o)[1] - TruncatedCentre(s)[1])
    + (TruncatedCentre(o)[2] - TruncatedCentre(s)[2]) * (TruncatedCentre(o)[2] - TruncatedCentre(s)[2])

\* C8: two circle hitboxes collide exactly when the distance between their
\* centres (truncated position plus offset) is at most the sum of their radii;
\* radius 10 at (0,0) against radius 10 at (25,0) does not collide, at (15,0)
\* it does.
C8_CircleCircle ==
    (query.kind = "collides" /\ a.shape = "circle" /\ b.shape = "circle")
    => /\ query.hit <=> (CentreDist2(a, b) <= (a.radius + b.radius) * (a.radius + b.radius))
       /\ (CircleAt(a, 10, 0, 0) /\ CircleAt(b, 10, 25, 0)) => ~query.hit
       /\ (CircleAt(a, 10, 0, 0) /\ CircleAt(b, 10, 15, 0)) => query.hit

\* two circles of radius 10 whose centres are exactly 20 apart were found to collide
C8_Witness ==
    /\ query.kind = "collides"
    /\ CircleAt(a, 10, 0, 0)
    /\ CircleAt(b, 10, 20, 0)
    /\ query.hit

PositionWrites == {"set_position", "set_x", "set_y"}

\* c agrees with the coordinates the position write w has written
ReflectsWrite(c, w, off) ==
    /\ w.kind \in {"set_position", "set_x"} => IsTruncOf(c[1] - off[1], w.arg[1])
    /\ w.kind = "set_position" => IsTruncOf(c[2] - off[2], w.arg[2])
    /\ w.kind = "set_y" => IsTruncOf(c[2] - off[2], w.arg[1])

\* C9: the corner or collision query that follows a position write, with no
\* update in between, derives the hitbox centre from the written coordinates;
\* after a write through the x or y accessor the draw and the collision
\* rectangle are already centred on the written coordinate.
C9_WriteVisibleToNextQuery ==
    [][/\ (op.kind \in PositionWrites /\ op'.kind \in {"corners", "collides"})
          => /\ query'.centres # {}
             /\ \A c \in query'.centres : ReflectsWrite(c, op, a.off)
             /\ op'.kind = "corners"
                => \A k \in 1..2 : \A c \in query'.centres :
                      query'.corners[1][k] + query'.corners[3][k] = 2 * CornerDen * c[k]
       /\ op'.kind = "set_x"
          => /\ IsTruncOf(centerx(a'.rect), op'.arg[1])
             /\ IsTruncOf(centerx(a'.crect) - a'.off[1], op'.arg[1])
       /\ op'.kind = "set_y"
          => /\ IsTruncOf(centery(a'.rect), op'.arg[1])
             /\ IsTruncOf(centery(a'.crect) - a'.off[2], op'.arg[1])]_vars

\* corners were asked for at a written position while the cached draw
\* rectangle was still centred elsewhere
C9_Witness ==
    /\ query.kind = "corners"
    /\ a.pos = <<-3, 7>>
    /\ a.off # <<0, 0>>
    /\ centerx(a.rect) # -1
    /\ centery(a.rect) # 3
    /\ query.corners[1][1] + query.corners[3][1] = 2 * CornerDen * (-1 + a.off[1])

\* C10: every place that derives the hitbox centre of a sprite gets the
\* position truncated to integers plus the hitbox offset: the corners, the
\* circle tests, the debug overlay, and the collision rectangle as written by
\* update and by the x and y accessors.
C10_OneCentreEverywhere ==
    /\ \A c \in query.centres : IsCentreOf(c, a)
    /\ \A c \in query.ocentres : IsCentreOf(c, b)
    /\ op.kind = "update" => IsCentreOf(<<centerx(a.crect), centery(a.crect)>>, a)
    /\ op.kind = "set_x" => IsTruncOf(centerx(a.crect) - a.off[1], a.pos[1])
    /\ op.kind = "set_y" => IsTruncOf(centery(a.crect) - a.off[2], a.pos[2])

\* a circle at a negative fractional position, with an offset, was tested
\* against a rotated rectangle
C10_Witness ==
    /\ query.kind = "collides"
    /\ a.shape = "circle"
    /\ a.pos[1] = -3
    /\ a.off = <<3, -2>>
    /\ b.shape = "rect"
    /\ b.rotation = 53
    /\ Cardinality(query.centres) = 1

-----------------------------------------------------------------------------
(* Hitbox shape: properties *)

\* C11: after any sequence of set_collision_rect, set_collision_circle and
\* reset_collision_to_default exactly one hitbox shape is active and the
\* parameters of the other shape are reset: a circle hitbox stores no custom
\* rectangle size, a rectangle hitbox stores no circle radius.
C11_OtherShapeReset ==
    /\ a.shape \in {"rect", "circle"}
    /\ a.shape = "circle" => a.custom = NoSize
    /\ a.shape = "rect" => a.radius = NoRadius

-----------------------------------------------------------------------------
(* Clip registration: properties *)

\* C12: registering a clip with an empty frame list or with a rate <= 0
\* fails with an error and leaves the registered clips (the one under the
\* same name included), the active clip, the frame index, the timer and the
\* flags unchanged.
C12_InvalidClipChangesNothing ==
    [][(op'.kind = "add" /\ (op'.arg[1] = <<>> \/ op'.arg[2] <= 0))
       => /\ ret' = "ValueError"
          /\ UNCHANGED <<animVars, mirrored, current_frame>>]_vars

\* an invalid registration under the name of the clip that is playing failed
C12_Witness ==
    /\ op.kind = "add"
    /\ op.arg[2] <= 0
    /\ ret = "ValueError"
    /\ animations[op.name] # NoClip
    /\ current_animation_name = op.name
    /\ is_playing
    /\ current_frame_index > 0

\* the positions of frames that hold an index of the atlas
InAtlas(frames) == {i \in 1..Len(frames) : frames[i] \in 0..(TotalFrames - 1)}

\* the requested indices that lie in the atlas, in their original order
RequestedInAtlas(frames) ==
    [j \in 1..Cardinality(InAtlas(frames)) |->
        frames[CHOOSE i \in InAtlas(frames) :
                   Cardinality({k \in InAtlas(frames) : k <= i}) = j]]

\* C13: registering an animation on a sprite creates a clip with exactly the
\* requested frame indices that lie in [0, atlas frame count), in their
\* original order; indices out of range are dropped without an error, and
\* when none is in range the registration fails as an invalid clip; so every
\* clip registered through a sprite refers only to frames of the atlas.
C13_ClipKeepsFramesInAtlas ==
    [][/\ (op'.kind = "add" /\ op'.arg[2] > 0)
          => IF RequestedInAtlas(op'.arg[1]) = <<>>
             THEN ret' = "ValueError" /\ UNCHANGED animations
             ELSE /\ ret' = "None"
                  /\ animations'[op'.name].frames = RequestedInAtlas(op'.arg[1])
                  /\ animations'[op'.name].fps = op'.arg[2]
       /\ \A n \in Names : \A i \in 1..Len(animations'[n].frames) :
             animations'[n].frames[i] \in 0..(TotalFrames - 1)]_vars

\* a clip was registered from a list holding an index outside the atlas
C13_Witness ==
    /\ op.kind = "add"
    /\ ret = "None"
    /\ Len(op.arg[1]) = 3
    /\ op.arg[1][2] >= TotalFrames
    /\ animations[op.name].frames = <<op.arg[1][1], op.arg[1][3]>>

-----------------------------------------------------------------------------
(* Playback control: properties *)

\* C14: stop() in any state clears playing, paused and finished, resets the
\* frame index and the timer to 0, and leaves the active clip reference and
\* the registered clips unchanged.
C14_StopResetsButKeepsClip ==
    [][op'.kind = "stop"
       => /\ ~is_playing' /\ ~is_paused' /\ ~finished'
          /\ current_frame_index' = 0
          /\ frame_timer' = 0
          /\ UNCHANGED <<current_animation, current_animation_name, animations>>]_vars

\* a clip that had advanced to another frame was stopped and is still the active clip
C14_Witness ==
    /\ op.kind = "stop"
    /\ current_animation # NoClip
    /\ current_animation = animations[current_animation_name]
    /\ current_frame # 0
    /\ current_frame_index = 0
    /\ ~is_playing

\* C15: pause() changes state only when the player is playing, resume() only
\* when it is playing and paused; an advance made while paused leaves the
\* frame index, the timer and the flags unchanged, so that resume continues
\* from the frame index and timer held at the pause.
C15_PauseFreezesPlayback ==
    [][/\ op'.kind = "pause"
          => /\ is_paused' = (is_playing \/ is_paused)
             /\ UNCHANGED <<animations, current_animation, current_animation_name,
                            current_frame_index, frame_timer, is_playing, finished>>
       /\ op'.kind = "resume"
          => /\ is_paused' = (is_paused /\ ~is_playing)
             /\ UNCHANGED <<animations, current_animation, current_animation_name,
                            current_frame_index, frame_timer, is_playing, finished>>
       /\ (op'.kind = "update" /\ is_paused) => UNCHANGED animVars]_vars

\* an advance was made while the player was paused in the middle of a frame
C15_Witness ==
    /\ op.kind = "update"
    /\ is_playing
    /\ is_paused
    /\ frame_timer > 0
    /\ current_frame_index > 0

-----------------------------------------------------------------------------
(* Game loop: Game (pygine/game.py) and the input tracker (pygine/utils.py) *)

\* Game.toggle_pause
TogglePause(g) == [g EXCEPT !.paused = ~@]

\* Game.pause
Pause(g) == [g EXCEPT !.paused = TRUE]

\* Game.resume
Resume(g) == [g EXCEPT !.paused = FALSE]

\* Game.toggle_fps_display
ToggleFpsDisplay(g) == [g EXCEPT !.show_fps = ~@]

\* what a user callback may call on the game while it runs
UserCalls == {"none", "pause", "resume", "toggle_pause"}

ApplyUserCall(g, call) ==
    CASE call = "pause" -> Pause(g)
      [] call = "resume" -> Resume(g)
      [] call = "toggle_pause" -> TogglePause(g)
      [] OTHER -> g

\* the body of the for loop of Game._handle_events for one event
HandleOne(g, e) ==
    IF e = "QUIT" THEN [g EXCEPT !.running = FALSE]
    ELSE IF e = "KEYDOWN_F1" THEN ToggleFpsDisplay(g)
    ELSE IF e \in {"KEYDOWN_PAUSE", "KEYDOWN_p"} THEN TogglePause(g)
    ELSE g

RECURSIVE HandleAll_StopAtQuit(_, _)
HandleAll_StopAtQuit(g, evs) ==
    IF evs = <<>> \/ ~g.running THEN g
    ELSE HandleAll_StopAtQuit(HandleOne(g, Head(evs)), Tail(evs))

\* Game._handle_events: every event pygame.event.get() returned, in order
RECURSIVE HandleAll(_, _)
HandleAll(g, evs) ==
    IF evs = <<>> THEN g ELSE HandleAll(HandleOne(g, Head(evs)), Tail(evs))

Refresh_NoDiff(inp, h) ==
    [pressed             |-> h.keys \cap KeyCodesToCheck,
     just_pressed        |-> h.keys \cap KeyCodesToCheck,
     just_released       |-> inp.pressed \ (h.keys \cap KeyCodesToCheck),
     mouse_pressed       |-> h.mouse,
     mouse_just_pressed  |-> [i \in Buttons |-> h.mouse[i] /\ ~inp.mouse_pressed[i]],
     mouse_just_released |-> [i \in Buttons |-> ~h.mouse[i] /\ inp.mouse_pressed[i]]]

Refresh_KeepsEdges(inp, h) ==
    LET current_keys == {k \in KeyCodesToCheck : k \in h.keys}
    IN  [pressed             |-> current_keys,
         just_pressed        |-> current_keys \ inp.pressed,
         just_released       |-> inp.just_released \cup (inp.pressed \ current_keys),
         mouse_pressed       |-> h.mouse,
         mouse_just_pressed  |-> [i \in Buttons |-> h.mouse[i] /\ ~inp.mouse_pressed[i]],
         mouse_just_released |-> [i \in Buttons |-> ~h.mouse[i] /\ inp.mouse_pressed[i]]]

\* utils.update_input_state with the keys and buttons h held down
Refresh(inp, h) ==
    LET current_keys == {k \in KeyCodesToCheck : k \in h.keys}
    IN  [pressed             |-> current_keys,
         just_pressed        |-> current_keys \ inp.pressed,
         just_released       |-> inp.pressed \ current_keys,
         mouse_pressed       |-> h.mouse,
         mouse_just_pressed  |-> [i \in Buttons |-> h.mouse[i] /\ ~inp.mouse_pressed[i]],
         mouse_just_released |-> [i \in Buttons |-> ~h.mouse[i] /\ inp.mouse_pressed[i]]]

RunsUpdate_Always(g) == TRUE

\* the test of the loop body that guards Game._update
RunsUpdate(g) == ~g.paused

Step(log, s) == [log EXCEPT !.steps = Append(@, s)]

gameIdle == <<animVars, mirrored, current_frame, a, b, third, op, ret, unitRun, query,
              ticks, scene>>

\* what Game._update leaves alone
updateIdle == <<animations, mirrored, b, third, op, query, ticks, scene>>

\* self.dt, in milliseconds, as the sprites' update takes it: in 1/TimeDen s
SpriteDt(ms) == (ms * TimeDen) \div 1000

\* the delta time of a tick that reads the clock at now
DeltaTime(g, now) == IF g.last_time > 0 THEN now - g.last_time ELSE 1000 \div Fps

\* Game.run: the callbacks are stored and the loop is entered
Run(update_func, draw_func) ==
    /\ game.pc = "init"
    /\ game' = [game EXCEPT !.update_callback = update_func,
                            !.draw_callback = draw_func,
                            !.running = TRUE,
                            !.pc = "loop"]
    /\ UNCHANGED <<events, held, input, tickLog, gameIdle>>

\* while self.running: a new tick begins with its delta time, or the loop is
\* left and run returns
LoopTest ==
    /\ game.pc = "loop"
    /\ IF game.running
       THEN /\ game' = [game EXCEPT !.pc = "events",
                                    !.dt = DeltaTime(game, ticks),
                                    !.last_time = ticks]
            /\ tickLog' = [NoTick EXCEPT !.tick = Min2(tickLog.tick + 1, 2),
                                         !.reading = ticks,
                                         !.prev = tickLog.reading]
       ELSE game' = [game EXCEPT !.pc = "done"] /\ UNCHANGED tickLog
    /\ UNCHANGED <<events, held, input, gameIdle>>

\* self._handle_events()
HandleEvents ==
    /\ game.pc = "events"
    /\ game' = [HandleAll(game, events) EXCEPT !.pc = "input"]
    /\ events' = <<>>
    /\ tickLog' = [Step(tickLog, "events") EXCEPT
                      !.handled = Len(events),
                      !.quit = \E i \in 1..Len(events) : events[i] = "QUIT"]
    /\ UNCHANGED <<held, input, gameIdle>>

\* update_input_state()
UpdateInputState ==
    /\ game.pc = "input"
    /\ input' = Refresh(input, held)
    /\ game' = [game EXCEPT !.pc = "update"]
    /\ tickLog' = Step(tickLog, "input")
    /\ UNCHANGED <<events, held, gameIdle>>

\* if not self.paused: self._update(), up to the callback: the sprites of
\* all_sprites are updated with self.dt
UpdateStep ==
    /\ game.pc = "update"
    /\ IF RunsUpdate(game)
       THEN /\ game' = [game EXCEPT !.pc = "callback"]
            /\ tickLog' = Step(tickLog, "update")
            /\ IF "a" \in game.all_sprites
               THEN /\ MgrUpdate(SpriteDt(game.dt))
                    /\ current_frame' = VisualFrame(current_animation', current_frame_index',
                                                    current_frame)
                    /\ a' = UpdateSprite(a, SpriteDt(game.dt))
                    /\ unitRun' = UnitRunAfter(SpriteDt(game.dt))
               ELSE UNCHANGED <<playerVars, current_frame, a, unitRun>>
       ELSE /\ game' = [game EXCEPT !.pc = "draw"]
            /\ UNCHANGED <<tickLog, playerVars, current_frame, a, unitRun>>
    /\ UNCHANGED <<events, held, input, ret, updateIdle>>

\* what the update callback may call on the sprite
SpriteCalls == {"play_walk", "play_jump"}

PlayedClip(call) == IF call = "play_walk" THEN "walk" ELSE "jump"

\* the rest of Game._update: the update callback, which may call the game or
\* select a clip of the sprite
UpdateCallback(call) ==
    /\ game.pc = "callback"
    /\ IF game.update_callback
       THEN /\ game' = [ApplyUserCall(game, call) EXCEPT !.pc = "draw"]
            /\ IF call \in SpriteCalls
               THEN /\ MgrPlay(PlayedClip(call), FALSE)
                    /\ tickLog' = [Step(tickLog, "update_callback") EXCEPT
                                      !.started = IF /\ Registered(PlayedClip(call))
                                                     /\ ~AlreadyPlaying(PlayedClip(call), FALSE)
                                                  THEN PlayedClip(call) ELSE ""]
               ELSE /\ tickLog' = Step(tickLog, "update_callback")
                    /\ UNCHANGED <<playerVars, ret, unitRun>>
       ELSE /\ game' = [game EXCEPT !.pc = "draw"]
            /\ UNCHANGED <<tickLog, playerVars, ret, unitRun>>
    /\ UNCHANGED <<events, held, input, current_frame, a, updateIdle>>

\* self._draw(), whose draw callback may call the game
DrawStep(call) ==
    /\ game.pc = "draw"
    /\ IF game.draw_callback
       THEN /\ game' = [ApplyUserCall(game, call) EXCEPT !.pc = "clock"]
            /\ tickLog' = Step(Step(tickLog, "draw"), "draw_callback")
       ELSE /\ game' = [game EXCEPT !.pc = "clock"]
            /\ tickLog' = Step(tickLog, "draw")
    /\ UNCHANGED <<events, held, input, gameIdle>>

\* self.clock.tick(self.fps): the tick is over
ClockTick ==
    /\ game.pc = "clock"
    /\ game' = [game EXCEPT !.pc = "loop"]
    /\ UNCHANGED <<events, held, input, tickLog, gameIdle>>

MaxTicks == 100

TickInputs == {10, 50}

\* time passes, before the loop is entered or while clock.tick blocks
TimePasses(d) ==
    /\ game.pc \in {"init", "clock"}
    /\ ticks + d <= MaxTicks
    /\ ticks' = ticks + d
    /\ UNCHANGED <<game, events, held, input, tickLog, animVars, mirrored, current_frame,
                   a, b, third, op, ret, unitRun, query, scene>>

\* the window system queues an event
Post(e) ==
    /\ game.pc # "done"
    /\ Len(events) < MaxEvents
    /\ events' = Append(events, e)
    /\ UNCHANGED <<game, held, input, tickLog, gameIdle>>

\* the keys and buttons held down, as pygame reports them
HeldInputs ==
    { NoHeld,
      [keys |-> {"K_LEFT"}, mouse |-> [i \in Buttons |-> i = 1]],
      [keys |-> {"K_SPACE", "K_F13"}, mouse |-> [i \in Buttons |-> i = 1]],
      [keys |-> {"K_LEFT", "K_SPACE"}, mouse |-> [i \in Buttons |-> i = 3]] }

\* the user presses or releases keys and buttons
HeldChange(h) ==
    /\ game.pc # "done"
    /\ h # held
    /\ held' = h
    /\ UNCHANGED <<game, events, input, tickLog, gameIdle>>

InitGame ==
    /\ InitPlayer
    /\ InitOther
    /\ a = NewSprite(0, 0)
    /\ b = NewSprite(0, 0)
    /\ op = NoOp
    /\ ret = "None"
    /\ unitRun = -1
    /\ query = NoQuery

LoopStep ==
    \/ LoopTest
    \/ HandleEvents
    \/ UpdateInputState
    \/ UpdateStep
    \/ \E call \in UserCalls \cup SpriteCalls : UpdateCallback(call)
    \/ \E call \in UserCalls : DrawStep(call)
    \/ ClockTick

\* the loop under the events the window system queues
NextGame ==
    \/ \E u \in BOOLEAN, d \in BOOLEAN : Run(u, d)
    \/ LoopStep
    \/ \E e \in EventInputs : Post(e)

SpecGame == InitGame /\ [][NextGame]_vars

\* the loop keeps running as long as a step of it is possible
SpecGameFair == SpecGame /\ WF_vars(LoopStep)

\* the loop under the keys and buttons the user holds down
NextInput ==
    \/ \E u \in BOOLEAN, d \in BOOLEAN : Run(u, d)
    \/ LoopStep
    \/ \E h \in HeldInputs : HeldChange(h)

SpecInput == InitGame /\ [][NextInput]_vars

\* Game.add_sprite(sprite) before the run: the sprite, with a looping and a
\* non-looping clip registered, is in all_sprites
InitManaged ==
    /\ InitOther
    /\ animations = [n \in Names |->
                        Animation(n, IF n = "walk" THEN Rev(MaxFrames) ELSE <<0, 1, 2>>,
                                  10, n = "walk")]
    /\ current_animation = NoClip
    /\ current_animation_name = ""
    /\ current_frame_index = 0
    /\ frame_timer = 0
    /\ is_playing = FALSE
    /\ is_paused = FALSE
    /\ finished = FALSE
    /\ mirrored = FALSE
    /\ current_frame = 0
    /\ a = NewSprite(0, 0)
    /\ b = NewSprite(0, 0)
    /\ op = NoOp
    /\ ret = "None"
    /\ unitRun = -1
    /\ query = NoQuery

\* Game.add_sprite
AddSprite ==
    /\ game.pc = "init"
    /\ "a" \notin game.all_sprites
    /\ game' = [game EXCEPT !.all_sprites = @ \cup {"a"}]
    /\ UNCHANGED <<events, held, input, tickLog, gameIdle>>

\* the loop with a managed sprite, under the time that passes
NextManaged ==
    \/ AddSprite
    \/ \E u \in BOOLEAN, d \in BOOLEAN : Run(u, d)
    \/ LoopStep
    \/ \E d \in TickInputs : TimePasses(d)

SpecManaged == InitManaged /\ [][NextManaged]_vars

-----------------------------------------------------------------------------
(* Game loop: properties *)

\* the user callbacks invoked so far in this tick, in order
CallbacksInvoked(steps) ==
    SelectSeq(steps, LAMBDA s : s \in {"update_callback", "draw_callback"})

IfProvided(provided, s) == IF provided THEN <<s>> ELSE <<>>

LoopSteps(steps) == SelectSeq(steps, LAMBDA s : s \in {"events", "input", "update", "draw"})

HasQuit(evs) == \E i \in 1..Len(evs) : evs[i] = "QUIT"

\* pause key-downs among the events: an odd number flips the pause flag
PauseKeyDowns(evs) ==
    Cardinality({i \in 1..Len(evs) : evs[i] \in {"KEYDOWN_p", "KEYDOWN_PAUSE"}})

-----------------------------------------------------------------------------
(* Input tracker: properties *)

\* the snapshot of the recognised keys among the keys h holds down
Snapshot(h) == h.keys \cap KeyCodesToCheck

\* C18: the input tracker is refreshed exactly once per tick and is the diff
\* of two consecutive snapshots: after a refresh, pressed is the current
\* snapshot of the recognised keys that are down, just-pressed is the current
\* snapshot minus the previous one, just-released the previous one minus the
\* current one, and likewise for each mouse button.
C18_TrackerIsSnapshotDiff ==
    [][/\ input' # input => (game.pc = "input" /\ game'.pc = "update")
       /\ (game.pc = "input" /\ game'.pc = "update")
          => /\ input'.pressed = Snapshot(held)
             /\ input'.just_pressed = Snapshot(held) \ input.pressed
             /\ input'.just_released = input.pressed \ Snapshot(held)
             /\ \A i \in Buttons :
                   /\ input'.mouse_pressed[i] = held.mouse[i]
                   /\ input'.mouse_just_pressed[i] = (held.mouse[i] /\ ~input.mouse_pressed[i])
                   /\ input'.mouse_just_released[i] = (~held.mouse[i] /\ input.mouse_pressed[i])
       /\ game'.pc = "clock"
          => Len(SelectSeq(tickLog'.steps, LAMBDA s : s = "input")) = 1]_vars

\* one refresh saw a key go down, another one go up, an unrecognised key
\* held, and a mouse button change, all at once
C18_Witness ==
    /\ game.pc = "update"
    /\ input.pressed = {"K_SPACE"}
    /\ input.just_pressed = {"K_SPACE"}
    /\ input.just_released = {"K_LEFT"}
    /\ "K_F13" \in held.keys
    /\ input.mouse_pressed[1]
    /\ ~input.mouse_just_pressed[1]

-----------------------------------------------------------------------------
(* Collision with a group of sprites *)

\* the sprites by identity: a is self
SpriteIds == {"a", "b", "third"}

SpriteOf(id) == CASE id = "a" -> a [] id = "b" -> b [] id = "third" -> third

RECURSIVE CollisionsIn_FirstHitOnly(_, _, _)
CollisionsIn_FirstHitOnly(self, group, acc) ==
    IF group = <<>> \/ acc.collisions # <<>> THEN acc
    ELSE LET sprite == Head(group)
         IN  IF sprite # self
             THEN CollisionsIn_FirstHitOnly(self, Tail(group),
                      [tested     |-> Append(acc.tested, sprite),
                       collisions |-> IF CollidesWith(SpriteOf(self), SpriteOf(sprite))
                                      THEN Append(acc.collisions, sprite)
                                      ELSE acc.collisions])
             ELSE CollisionsIn_FirstHitOnly(self, Tail(group), acc)

\* the for loop of collides_with_group over the members of the group in the
\* order the group yields them; acc holds the sprites tested and the list built
RECURSIVE CollisionsIn(_, _, _)
CollisionsIn(self, group, acc) ==
    IF group = <<>> THEN acc
    ELSE LET sprite == Head(group)
         IN  IF sprite # self
             THEN CollisionsIn(self, Tail(group),
                      [tested     |-> Append(acc.tested, sprite),
                       collisions |-> IF CollidesWith(SpriteOf(self), SpriteOf(sprite))
                                      THEN Append(acc.collisions, sprite)
                                      ELSE acc.collisions])
             ELSE CollisionsIn(self, Tail(group), acc)

\* AnimatedSprite.collides_with_group
CollidesWithGroup(self, group) ==
    CollisionsIn(self, group, [tested |-> <<>>, collisions |-> <<>>])

\* the orders in which a group of some of the sprites yields its members
GroupInputs ==
    {g \in UNION {[1..n -> SpriteIds] : n \in 0..3} :
        \A i \in 1..Len(g) : \A j \in 1..Len(g) : i # j => g[i] # g[j]}

\* a.collides_with_group(group)
QueryGroup(group) ==
    /\ op' = Op("collides_with_group", "", 0, FALSE, group)
    /\ query' = [kind |-> "group", centres |-> {}, ocentres |-> {}, corners |-> <<>>,
                 hit |-> FALSE,
                 tested |-> CollidesWithGroup("a", group).tested,
                 result |-> CollidesWithGroup("a", group).collisions]
    /\ UNCHANGED <<spriteIdle, a, b, otherVars>>

\* the sprites of a group: one in the state of a itself, one far away, a
\* circle and a rotated rectangle nearby
GroupSprites ==
    { NewSprite(0, 0),
      SetPositionOf(NewSprite(0, 0), 400, 0),
      SetCollisionCircleOf(SetPositionOf(NewSprite(0, 0), 30, 0), 10, 0, 0),
      SetRotationOf(SetCollisionRectOf(SetPositionOf(NewSprite(0, 0), 31, -1), 20, 10, 3, -2), 53),
      SetCollisionCircleOf(SetPositionOf(NewSprite(0, 0), 200, 0), 10, 0, 0) }

InitGroup ==
    /\ InitPlayer
    /\ a = NewSprite(0, 0)
    /\ b \in GroupSprites
    /\ third \in GroupSprites
    /\ game = NewGame
    /\ events = <<>>
    /\ held = NoHeld
    /\ input = NewInput
    /\ tickLog = NoTick
    /\ ticks = 0
    /\ scene = NewScenes
    /\ op = NoOp
    /\ ret = "None"
    /\ unitRun = -1
    /\ query = NoQuery

NextGroup == \E group \in GroupInputs : QueryGroup(group)

SpecGroup == InitGroup /\ [][NextGroup]_vars

\* the members of a group
Members(group) == {group[i] : i \in 1..Len(group)}

\* C19: collides_with_group(self, others) returns exactly the entities of
\* others, other than self itself (by identity), for which
\* self.collides_with(entity) is true; every member of others is evaluated
\* (no early exit) and self is never in the result, even as a member of others.
C19_GroupCollisions ==
    query.kind = "group"
    => /\ Members(query.result)
             = {m \in Members(op.arg) \ {"a"} : CollidesWith(a, SpriteOf(m))}
       /\ Len(query.result) = Cardinality(Members(query.result))
       /\ Members(query.tested) = Members(op.arg) \ {"a"}
       /\ "a" \notin Members(query.result)

\* self was a member of the group, both other members collided, one of them
\* in the very state of self
C19_Witness ==
    /\ query.kind = "group"
    /\ Members(op.arg) = SpriteIds
    /\ Members(query.result) = {"b", "third"}
    /\ b = a
    /\ third # a

-----------------------------------------------------------------------------
(* Degenerate hitboxes under collision queries: properties *)

\* a rectangle hitbox of zero width and zero height: all four corners coincide
IsPointRect(s) == s.shape = "rect" /\ s.custom = <<0, 0>>

\* an unrotated rectangle hitbox with a positive width and a positive height
IsSolidUprightRect(s) ==
    /\ s.shape = "rect"
    /\ s.rotation = 0
    /\ \A i \in 1..4 : EdgeNormal(GetCorners(s), i) # <<0, 0>>

\* the point q lies in the closed box spanned by the corners
InClosedBox(q, corners) ==
    /\ \E i \in 1..4 : corners[i][1] <= q[1]
    /\ \E i \in 1..4 : corners[i][1] >= q[1]
    /\ \E i \in 1..4 : corners[i][2] <= q[2]
    /\ \E i \in 1..4 : corners[i][2] >= q[2]

\* the point q is no further than the circle's radius from its centre
InClosedDisc(q, circle) ==
    LET ctr == PolygonCircleCentre(circle)
        dx  == q[1] - CornerDen * ctr[1]
        dy  == q[2] - CornerDen * ctr[2]
        r   == CornerDen * circle.radius
    IN  dx * dx + dy * dy <= r * r

\* C20: a collision query returns a result and never raises, for hitboxes of
\* zero width, zero height or zero radius at any rotation.  Zero-length edges
\* are skipped as separating axes, so a point-sized rectangle collides with a
\* solid upright rectangle exactly when the point lies in its closed box; a
\* zero-length segment yields the point-to-point distance, so a point-sized
\* rectangle collides with a circle exactly when the point is within the
\* radius of the centre; the point-in-polygon test never reads an
\* intersection abscissa it did not compute.
C20_CollisionQueriesNeverRaise ==
    (query.kind = "collides") =>
        /\ ~query.raised
        /\ query.hit \in BOOLEAN
        /\ \A pr \in {<<a, b>>, <<b, a>>} :
              /\ (IsPointRect(pr[1]) /\ IsSolidUprightRect(pr[2]))
                    => (query.hit <=> InClosedBox(GetCorners(pr[1])[1], GetCorners(pr[2])))
              /\ (IsPointRect(pr[1]) /\ pr[2].shape = "circle")
                    => (query.hit <=> InClosedDisc(GetCorners(pr[1])[1], pr[2]))

\* a rotated point-sized rectangle was tested against a circle of radius zero
\* at the same place, and against a rectangle
C20_Witness ==
    /\ query.kind = "collides"
    /\ ~query.raised
    /\ query.hit
    /\ \E pr \in {<<a, b>>, <<b, a>>} :
          /\ IsPointRect(pr[1])
          /\ pr[1].rotation # 0
          /\ pr[2].shape = "circle"
          /\ pr[2].radius = 0

-----------------------------------------------------------------------------
(* Animation player: timing and state invariants *)

\* the call of update that op' records reached the frame boundary
BoundaryReached ==
    /\ op'.kind = "update"
    /\ ~UpdateSkips
    /\ frame_timer + op'.n >= frame_duration(current_animation)

\* C21: when advance(dt) makes the accumulated frame timer reach or exceed the
\* per-frame duration, the duration is subtracted from the timer: the time
\* beyond the frame boundary is carried into the next frame, not discarded.
C21_ExcessTimeCarried ==
    [][BoundaryReached =>
          frame_timer' = frame_timer + op'.n - frame_duration(current_animation)]_vars

\* the four states of the player, read from its flags
PlayerState ==
    CASE finished                 -> "Finished"
      [] is_playing /\ is_paused  -> "Paused"
      [] is_playing               -> "Playing"
      [] OTHER                    -> "Stopped"

\* C22: after any sequence of player operations the flags describe exactly one
\* of Stopped, Playing, Paused, Finished: paused implies playing, and finished
\* implies neither playing nor paused; a clip never finishes while paused, and
\* pausing a finished or stopped player has no effect.
C22_FlagsDescribeOneState ==
    /\ [](/\ is_paused => is_playing
          /\ finished => (~is_playing /\ ~is_paused))
    /\ [][/\ (is_paused /\ ~finished) => ~finished'
          /\ (op'.kind = "pause" /\ PlayerState \in {"Finished", "Stopped"})
                => UNCHANGED playerVars]_vars

\* pause was called on a player whose clip had finished
C22_Witness ==
    /\ op.kind = "pause"
    /\ PlayerState = "Finished"
    /\ current_animation # NoClip

-----------------------------------------------------------------------------
(* Game loop with a managed sprite: properties *)

\* the player of a clip started at index 0 and timer 0, then advanced by dt
AdvancedFromStart(clip, dt) ==
    IF dt >= frame_duration(clip)
    THEN <<IF Len(clip.frames) > 1 THEN 1 ELSE 0, TimerAfterAdvance(dt, clip)>>
    ELSE <<0, dt>>

\* C23: within one tick the user update callback runs before the animation
\* players of the sprites managed by the loop are advanced, so a clip selected
\* by the callback in tick t is already advanced by that tick's dt before
\* tick t is drawn.
C23_CallbackBeforeAdvance ==
    (game.pc = "draw" /\ "a" \in game.all_sprites /\ tickLog.started # "")
    => <<current_frame_index, frame_timer>>
          = AdvancedFromStart(current_animation, SpriteDt(game.dt))

\* C25: the loop's delta time is the fallback 1/target_fps on the first tick
\* only; on every later tick it is the clock reading at this tick minus the
\* clock reading at the previous tick, whatever the clock read at the first
\* tick, a reading of 0 included.
C25_DeltaTimeFromReadings ==
    /\ tickLog.tick = 1 => game.dt = 1000 \div Fps
    /\ tickLog.tick = 2 => game.dt = tickLog.reading - tickLog.prev

-----------------------------------------------------------------------------
(* Sprite position: properties *)

\* the rectangle r lies within the screen
Within(r, screen) ==
    /\ r.x >= screen.x
    /\ r.y >= screen.y
    /\ r.x + r.w <= screen.x + screen.w
    /\ r.y + r.h <= screen.y + screen.h

\* the sprite lies inside the screen: its draw rectangle does, and so does
\* the rectangle of the same size centred on its position
InsideScreen(s, screen) ==
    /\ Within(s.rect, screen)
    /\ Within(SetCenter(s.rect, Trunc(s.pos[1]), Trunc(s.pos[2])), screen)

\* C24: the stored position is the single source of truth: it changes only
\* through explicit position writes (set_position, the x and y accessors,
\* move, move_to without speed) and through velocity integration in update;
\* no operation overwrites it from the cached draw rectangle, so wrap_screen
\* on a sprite that lies inside the screen leaves the position as it was.
C24_PositionOnlyWritten ==
    [][/\ a'.pos # a.pos
          => op'.kind \in {"set_position", "set_x", "set_y", "move", "move_to",
                           "update", "wrap_screen"}
       /\ (op'.kind = "wrap_screen" /\ InsideScreen(a, ScreenRect))
          => a'.pos = a.pos]_vars

-----------------------------------------------------------------------------
(* Input tracker: edge sets *)

\* C26: after every input refresh, for any sequence of key snapshots,
\* just-pressed is a subset of pressed, just-released is disjoint from pressed,
\* and no key is both just-pressed and just-released; a key held down over
\* consecutive ticks is just-pressed in the first of those ticks only, and
\* just-released only in the first tick after it goes up.
C26_EdgeSetsConsistent ==
    /\ [](/\ input.just_pressed \subseteq input.pressed
          /\ input.just_released \cap input.pressed = {}
          /\ input.just_pressed \cap input.just_released = {})
    /\ [][(game.pc = "input" /\ game'.pc = "update")
          => \A k \in KeyCodesToCheck :
                /\ (k \in input'.just_pressed)
                      <=> (k \notin input.pressed /\ k \in held.keys)
                /\ (k \in input'.just_released)
                      <=> (k \in input.pressed /\ k \notin held.keys)]_vars

\* in the second tick a key held since the refresh before is pressed and no
\* longer just-pressed, while a key that is up is neither pressed nor
\* just-released
C26_Witness ==
    /\ game.pc = "update"
    /\ tickLog.tick = 2
    /\ "K_LEFT" \in input.pressed
    /\ "K_LEFT" \notin input.just_pressed
    /\ "K_SPACE" \notin input.pressed
    /\ "K_SPACE" \notin input.just_released
    /\ "K_LEFT" \in held.keys

-----------------------------------------------------------------------------
(* Animation player: the current clip *)

\* C27: whenever the player has a current clip, after any sequence of add,
\* play, stop, pause, resume, advance and remove operations the current
\* frame-within-clip index is in [0, len(frames)-1] of that clip, so the
\* sprite's mapping from in-clip index to atlas frame never reads out of
\* range, and the sprite's current visual frame is a valid atlas index.
C27_IndexWithinCurrentClip ==
    /\ current_animation # NoClip
          => /\ 0 <= current_frame_index
             /\ current_frame_index <= Len(current_animation.frames) - 1
             /\ current_frame_index + 1 \in DOMAIN current_animation.frames
    /\ 0 <= current_frame
    /\ current_frame < TotalFrames

\* the player is on the last frame of the clip it holds, an index the clip
\* now registered under the same name does not have
C27_Witness ==
    /\ current_animation # NoClip
    /\ Registered(current_animation_name)
    /\ current_frame_index = Len(current_animation.frames) - 1
    /\ current_frame_index >= Len(animations[current_animation_name].frames)
    /\ op.kind = "update"

\* C28: whenever the player reports a current clip name, that name is
\* registered and the current clip is the clip registered under it, after any
\* sequence of add_animation (overwriting the active clip's name included),
\* play, stop, remove_animation and clear_animations.
C28_CurrentNameRegistered ==
    current_animation_name # ""
    => /\ Registered(current_animation_name)
       /\ current_animation = animations[current_animation_name]

-----------------------------------------------------------------------------
(* Circle against rectangle: the two paths *)

\* C29: for a circle against an unrotated, default-sized rectangle, the
\* closest-point-on-AABB fast path gives the same answer as the general
\* polygon path (centre inside the polygon, or distance from the centre to
\* some edge segment <= radius) applied to the same rectangle's corners, for
\* every centre position and every radius >= 0.
C29_FastPathAgreesWithPolygonPath ==
    (query.kind = "fast_path") => (query.fast = query.general)

-----------------------------------------------------------------------------
(* Scene manager *)

\* the scene objects whose active flag is set
ActiveScenes == {o \in SceneObjects : scene.active[o]}

\* the hooks a switch to the registered scene `new` has to call, in order,
\* when `old` was the current scene (0: none)
HooksOfSwitch(old, new) ==
    (IF old # 0 THEN << <<"on_exit", old>> >> ELSE <<>>) \o << <<"on_enter", new>> >>

\* a step that was a switch_to(name)
SwitchedTo(name) == scene' # scene /\ scene'.op = <<"switch_to", name>>

\* C30: after any sequence of add_scene and switch_to: switch_to of an
\* unknown name returns false and changes nothing; switch_to of a known name
\* calls on_exit on the previous current scene before on_enter on the new
\* one; and at most one scene is active at any time, namely the current
\* scene.
C30_SceneSwitching ==
    /\ [](ActiveScenes = IF scene.current_scene = 0 THEN {} ELSE {scene.current_scene})
    /\ [][\A name \in SwitchInputs :
            SwitchedTo(name) =>
               IF HasScene(scene, name)
               THEN /\ scene'.ret = "True"
                    /\ scene'.calls = HooksOfSwitch(scene.current_scene, scene.scenes[name])
                    /\ scene'.current_scene = scene.scenes[name]
               ELSE /\ scene'.ret = "False"
                    /\ scene'.calls = <<>>
                    /\ scene'.scenes = scene.scenes
                    /\ scene'.current_scene = scene.current_scene
                    /\ scene'.active = scene.active]_vars

\* a switch from one scene object to another, with a replaced "menu" object
\* still registered nowhere, after which an unknown name was refused
C30_Witness ==
    /\ scene.op = <<"switch_to", "credits">>
    /\ scene.ret = "False"
    /\ scene.current_scene = 2
    /\ scene.scenes["menu"] = 3
    /\ ActiveScenes = {2}

====
